---------------------------- MODULE Spec2Model ----------------------------
(***************************************************************************)
(* Model of the text summarization front end.                              *)
(*                                                                         *)
(*   TextSummarizationTool  the main component: its useState cells, its    *)
(*                          three async handlers (summarizeText,           *)
(*                          summarizeFile, submitFeedback) and the         *)
(*                          callbacks the input controls call;             *)
(*   summarizationService   the requests the handlers send;                *)
(*   FileUpload             the file picker and its validateFiles;         *)
(*   validateFile           the validation utility;                        *)
(*   useSummarization       the summarization hook;                        *)
(*   useFileUpload          the upload hook, with fileService;             *)
(*   HistoryPanel           the history page.                              *)
(*                                                                         *)
(* An async handler is a frame: a position (the await it is suspended at)  *)
(* and its locals.  A request in flight is a message in requests[h]; the   *)
(* transport's answer is a message in replies[h]; the handler's            *)
(* continuation consumes it.  Everything a continuation does up to the     *)
(* next await is one step (JavaScript runs it to completion).              *)
(*                                                                         *)
(* The state cells keep the value last given to their setter, also after   *)
(* the component has left the tree (mounted = FALSE): the handlers are not *)
(* cancelled and go on calling the setters.                                *)
(*                                                                         *)
(* The controls of the component are disabled while loading, so its        *)
(* handlers never overlap; each workflow has a specification of its own:   *)
(* Spec (summarizeFile), TextSpec (summarizeText and the length options),  *)
(* CycleSpec (both, with one text), FeedbackSpec (submitFeedback after a   *)
(* text summarization), UploadSpec (FileUpload and validateFile), HookSpec *)
(* (useSummarization), FileHookSpec (useFileUpload and fileService),       *)
(* HistorySpec (HistoryPanel).                                             *)
(***************************************************************************)
EXTENDS Integers, Sequences, FiniteSets, TLC

VARIABLES
    \* TextSummarizationTool: the useState cells
    text, summary, loading, file, feedback, rating, documentId, error,
    selectedModel, summaryOptions, advancedOptions, processingStatus,
    \* TextSummarizationTool: whether the component is in the tree
    mounted,
    \* the frames of the async handlers
    tPc, fPc, bPc,
    \* summarizeFile's locals
    docId, attempts, summaryReady,
    \* history of the current (or last) run of summarizeFile: the status queries
    \* it has sent, and the outcomes of the last two of them; the document id
    \* the displayed summary was generated for ("" without one)
    pollCalls, pollLog, summaryDocId,
    \* the transport: requests sent and not yet answered-and-consumed, answers
    requests, replies,
    \* pending setTimeout(() => setProcessingStatus(''), 3000) callbacks
    statusTimers,
    \* FileUpload: its useState cells (error as the list it is joined from)
    fuError, selectedFiles,
    \* validateFile: the result of the last call
    validation,
    \* useSummarization: its useState cells and the calls in flight
    hLoading, hError, hSummary, hCalls,
    \* useFileUpload: its useState cells (null as ""); the calls of its uploadFile
    \* and of fileService.uploadFile; the apiClient.post calls made
    ufLoading, ufError, uploadProgress, upCalls, apiPosts,
    \* HistoryPanel: the mounts so far, whether it is in the tree, the useState
    \* cells of the mounted instance, and the fetchHistory call of each instance
    hpInst, hpMounted, hpHistory, hpLoading, hpError, hpFetches

\* what the user edits
inputVars == << text, file, feedback, rating, selectedModel, summaryOptions, advancedOptions >>

\* what the handlers write
outputVars == << summary, loading, documentId, error, processingStatus >>

frameVars == << tPc, fPc, bPc, docId, attempts, summaryReady >>

netVars == << requests, replies >>

historyVars == << pollCalls, pollLog, summaryDocId >>

toolVars == << inputVars, outputVars, frameVars, netVars, historyVars, mounted, statusTimers >>

uploadVars == << fuError, selectedFiles, validation >>

hookVars == << hLoading, hError, hSummary, hCalls >>

fileHookVars == << ufLoading, ufError, uploadProgress, upCalls, apiPosts >>

historyPanelVars == << hpInst, hpMounted, hpHistory, hpLoading, hpError, hpFetches >>

vars == << toolVars, uploadVars, hookVars, fileHookVars, historyPanelVars >>

---------------------------------------------------------------------------
\* Bounds of the model

\* longest text typed into the text area
MaxTextLen == 2

\* most calls of the hook's functions in one run
MaxHookCalls == 3

\* most calls of uploadFile (the hook's and the file service's) in one run
MaxUploadCalls == 2

\* most visits of the history page in one run
MaxHistoryMounts == 2

\* longest history list fetchHistory returns
MaxHistoryLen == 2

\* most pending timers that clear the 'Feedback submitted' status
MaxStatusTimers == 2

---------------------------------------------------------------------------
\* Program constants

maxAttempts == 30

DefaultMaxLength == 150

DefaultMinLength == 40

\* FILE_TYPES.MAX_SIZE = 10 * 1024 * 1024
MAX_SIZE == 10485760

\* FileUpload's maxSize prop, in MB
maxSize == 10

\* useFileUpload's and fileService's MAX_FILE_SIZE_MB
MAX_FILE_SIZE_MB == 10

\* Rating's maxRating prop (default)
maxRating == 5

ALLOWED_EXTENSIONS == << ".txt", ".pdf", ".docx", ".doc" >>

\* FileUpload's accept prop, split(',')
acceptedTypes == << ".txt", ".pdf", ".docx", ".doc" >>

\* The messages the component shows
MsgEmptyText == "Please enter some text to summarize"
MsgSummarizeFailed == "An error occurred during summarization. Please try again."
MsgNoFile == "Please select a file to upload"
MsgTimeout == "Summary generation is taking longer than expected. Please check back later."
MsgUploadFailed == "Error uploading or processing document. Please try again."
MsgNoRating == "Please provide a rating before submitting feedback"
MsgFeedbackFailed == "Error submitting feedback. Please try again."

\* processingStatus: the text and, for the progress text, the two numbers in it
Status(msg) == [msg |-> msg, attempt |-> 0, of |-> 0]

\* a progress text that counts from 0
ProgressFromZero(n, m) == [msg |-> "Processing document... (n/m)", attempt |-> n - 1, of |-> m]

\* `Processing document... (${attempts + 1}/${maxAttempts})`
Progress(n, m) == [msg |-> "Processing document... (n/m)", attempt |-> n, of |-> m]

StatusNone == Status("")
StatusGenerating == Status("Generating summary...")
StatusUploading == Status("Uploading document...")
StatusProcessing == Status("Processing document...")
StatusSubmitting == Status("Submitting feedback...")
StatusFeedbackDone == Status("Feedback submitted successfully!")

---------------------------------------------------------------------------
\* Values the environment supplies

Handlers == {"summarizeText", "summarizeFile", "submitFeedback"}

DocIds == {"d1", "d2"}

Summaries == {"S1", "S2"}

\* What the status endpoint may say besides 'completed' ("" is a response
\* without a status)
OtherStatuses == {"processing", "pending", "failed", ""}

\* The characters typed into the text area
Chars == {" ", "\n", "a"}

\* What String.prototype.trim removes
Whitespace == {" ", "\n"}

\* The sequences over S of length at most n
SeqUpTo(S, n) == UNION {[1..k -> S] : k \in 0..n}

Texts == SeqUpTo(Chars, MaxTextLen)

\* The values the two range inputs deliver, as the digit strings of e.target.value
\* (maxLength: min 50, max 500; minLength: min 20, max 200)
SliderValues ==
    [ maxLength |-> { << 5, 0 >>, << 1, 5, 0 >>, << 5, 0, 0 >> },
      minLength |-> { << 2, 0 >>, << 4, 0 >>, << 2, 0, 0 >> } ]

\* The comments typed into the feedback text area
FeedbackTexts == {"", "too long"}

\* A file: its name split at '.', its size in bytes, its MIME type
GoodFile == [name |-> << "report", "pdf" >>, size |-> 1024, type |-> "application/pdf"]

\* The names of the files offered to the file picker, and their MIME types
FileNames ==
    { << "report", "pdf" >>, << "notes", "TXT" >>, << "setup", "exe" >>, << "photo", "doc", "png" >> }

MimeOf(name) ==
    CASE name[Len(name)] = "pdf" -> "application/pdf"
      [] name[Len(name)] = "TXT" -> "text/plain"
      [] name[Len(name)] = "exe" -> "application/x-msdownload"
      [] OTHER -> "image/png"

\* Their sizes: small, exactly 10 MB, one byte more, 15 MB
FileSizes == { 1024, 10 * 1024 * 1024, 10 * 1024 * 1024 + 1, 15 * 1024 * 1024 }

CandidateFiles ==
    { [name |-> n, size |-> z, type |-> MimeOf(n)] : n \in FileNames, z \in FileSizes }

\* A transport answer: the parsed body of a 2xx response, or the error thrown
OkReply(st, s, d) == [ok |-> TRUE, status |-> st, summary |-> s, document_id |-> d, message |-> ""]

ErrReply == [ok |-> FALSE, status |-> "", summary |-> "", document_id |-> "", message |-> "Request failed with status code 500"]

NoMessages == [h \in Handlers |-> << >>]

---------------------------------------------------------------------------
\* summarizationService

\* options.maxLength || 150
OrDefault(v, d) == IF v = 0 THEN d ELSE v

\* summarizeText: the JSON body it posts
serviceSummarizeText(t, options) ==
    [ op |-> "POST /summarize",
      text |-> t,
      max_length |-> OrDefault(options.maxLength, DefaultMaxLength),
      min_length |-> OrDefault(options.minLength, DefaultMinLength) ]

\* uploadDocument: the multipart form it posts
uploadDocument(f, options) ==
    [ op |-> "POST /documents",
      file |-> f,
      max_length |-> OrDefault(options.maxLength, DefaultMaxLength),
      min_length |-> OrDefault(options.minLength, DefaultMinLength) ]

\* getSummary: the request it sends
getSummary(id) == [op |-> "GET /documents/{id}", id |-> id]

\* submitFeedback: the JSON body it posts (the feedback object as given)
serviceSubmitFeedback(record) ==
    [ op |-> "POST /feedback",
      document_id |-> record.document_id,
      summary_id |-> record.summary_id,
      rating |-> record.rating,
      feedback_text |-> record.feedback_text,
      original_summary |-> record.original_summary ]

\* The options object the handlers build:
\* {...summaryOptions, model: selectedModel, ...advancedOptions}
RequestOptions ==
    [ maxLength |-> summaryOptions.maxLength,
      minLength |-> summaryOptions.minLength,
      model |-> selectedModel,
      temperature |-> advancedOptions.temperature,
      format |-> advancedOptions.format,
      includeKeywords |-> advancedOptions.includeKeywords,
      language |-> advancedOptions.language ]

\* The answers the transport can give to a request
RepliesTo(req) ==
    IF req.op = "POST /documents"
      THEN {OkReply("", "", d) : d \in DocIds} \cup {ErrReply}
    ELSE IF req.op = "GET /documents/{id}"
      THEN {OkReply("completed", s, req.id) : s \in Summaries}
           \cup {OkReply(st, "", req.id) : st \in OtherStatuses}
           \cup {ErrReply}
    ELSE IF req.op = "POST /summarize"
      THEN {OkReply("", s, d) : s \in Summaries, d \in DocIds} \cup {ErrReply}
    ELSE {OkReply("", "", ""), ErrReply}

---------------------------------------------------------------------------
\* Initial state

DefaultAdvancedOptions ==
    [temperature |-> 7, format |-> "paragraph", includeKeywords |-> FALSE, language |-> "auto"]

ToolInit ==
    /\ text = << >>
    /\ summary = ""
    /\ loading = FALSE
    /\ file = << >>
    /\ feedback = ""
    /\ rating = 0
    /\ documentId = ""
    /\ error = ""
    /\ selectedModel = "gpt-3.5-turbo"
    /\ summaryOptions = [maxLength |-> 150, minLength |-> 40]
    /\ advancedOptions = DefaultAdvancedOptions
    /\ processingStatus = StatusNone
    /\ mounted = TRUE
    /\ tPc = "idle"
    /\ fPc = "idle"
    /\ bPc = "idle"
    /\ docId = ""
    /\ attempts = 0
    /\ summaryReady = FALSE
    /\ requests = NoMessages
    /\ replies = NoMessages
    /\ pollCalls = 0
    /\ pollLog = << "none", "none" >>
    /\ summaryDocId = ""
    /\ statusTimers = 0

UploadInit ==
    /\ fuError = << >>
    /\ selectedFiles = << >>
    /\ validation = [isValid |-> TRUE, errors |-> << >>]

HookInit ==
    /\ hLoading = FALSE
    /\ hError = ""
    /\ hSummary = << >>
    /\ hCalls = << >>

FileHookInit ==
    /\ ufLoading = FALSE
    /\ ufError = ""
    /\ uploadProgress = 0
    /\ upCalls = << >>
    /\ apiPosts = 0

HistoryPanelInit ==
    /\ hpInst = 0
    /\ hpMounted = FALSE
    /\ hpHistory = << >>
    /\ hpLoading = TRUE
    /\ hpError = ""
    /\ hpFetches = << >>

Init == ToolInit /\ UploadInit /\ HookInit /\ FileHookInit /\ HistoryPanelInit

---------------------------------------------------------------------------
\* The transport answers a request in flight

TransportReply(h) ==
    /\ requests[h] # << >>
    /\ replies[h] = << >>
    /\ \E r \in RepliesTo(requests[h][1]) :
          replies' = [replies EXCEPT ![h] = << r >>]
    /\ UNCHANGED << inputVars, outputVars, frameVars, requests, historyVars,
                    mounted, statusTimers >>
    /\ UNCHANGED << uploadVars, hookVars, fileHookVars, historyPanelVars >>

\* A handler's await returns: its request and the answer leave the transport
Settle(h) ==
    /\ requests' = [requests EXCEPT ![h] = << >>]
    /\ replies' = [replies EXCEPT ![h] = << >>]

---------------------------------------------------------------------------
\* TextSummarizationTool: file selection

\* a handleFileUpload that keeps the previous document
handleFileUploadKeepsDocument(selectedFile) ==
    /\ file' = selectedFile
    /\ UNCHANGED << documentId, summary >>

\* handleFileUpload
handleFileUpload(selectedFile) ==
    /\ file' = selectedFile
    /\ IF documentId # ""
         THEN documentId' = "" /\ summary' = ""
         ELSE UNCHANGED << documentId, summary >>

\* FileUpload calls onFileSelect with a file that passed validateFiles, or with
\* null when the file is removed; the control is disabled while loading
SelectFile ==
    /\ mounted
    /\ ~loading
    /\ \E selectedFile \in {<< GoodFile >>, << >>} :
          /\ selectedFile # file
          /\ handleFileUpload(selectedFile)
    /\ summaryDocId' = IF summary' = "" THEN "" ELSE summaryDocId
    /\ UNCHANGED << text, feedback, rating, selectedModel, summaryOptions, advancedOptions >>
    /\ UNCHANGED << loading, error, processingStatus >>
    /\ UNCHANGED << frameVars, netVars, pollCalls, pollLog, mounted, statusTimers >>
    /\ UNCHANGED << uploadVars, hookVars, fileHookVars, historyPanelVars >>

---------------------------------------------------------------------------
\* TextSummarizationTool: summarizeFile

\* the loop test with an off-by-one bound
LoopContinuesOneMore(ready, n) == ~ready /\ n <= maxAttempts

\* the loop test without the summaryReady flag
LoopContinuesWhenReady(ready, n) == n < maxAttempts

\* while (!summaryReady && attempts < maxAttempts)
LoopContinues(ready, n) == ~ready /\ n < maxAttempts

\* the exhausted loop ending without any message
ErrorAfterLoopSilent(ready, err) == err

\* the timeout message set whether or not the summary is ready
ErrorAfterLoopAlways(ready, err) == MsgTimeout

\* the exhausted loop reported with the message of the outer catch
ErrorAfterLoopAsUploadError(ready, err) == IF ~ready THEN MsgUploadFailed ELSE err

\* if (!summaryReady) setError('Summary generation is taking longer ...')
ErrorAfterLoop(ready, err) == IF ~ready THEN MsgTimeout ELSE err

\* a test that also takes 'failed' as the end of the processing
IsCompletedOrFailed(summaryResponse) == summaryResponse.status \in {"completed", "failed"}

\* What a status answer that is not 'completed' said, for the history
NotCompletedOutcome(summaryResponse) ==
    CASE summaryResponse.status = "failed" -> "failed"
      [] summaryResponse.status = "" -> "no status"
      [] OTHER -> "not ready"

\* summaryResponse.status === 'completed'
IsCompleted(summaryResponse) == summaryResponse.status = "completed"

\* The handler returns: its locals are gone
Return ==
    /\ fPc' = "idle"
    /\ docId' = ""
    /\ attempts' = 0
    /\ summaryReady' = FALSE

\* an iteration that counts itself twice
AfterIterationCountedTwice(ready, n) ==
    IF LoopContinues(ready, n + 1)
      THEN /\ fPc' = "delay"
           /\ summaryReady' = ready
           /\ attempts' = n + 1
           /\ UNCHANGED << error, loading, docId >>
      ELSE /\ error' = ErrorAfterLoop(ready, error)
           /\ loading' = FALSE
           /\ Return

\* attempts++, the loop test and what follows: either the next await (the
\* delay) or the statements after the loop and the end of the handler
AfterIteration(ready, n) ==
    IF LoopContinues(ready, n)
      THEN /\ fPc' = "delay"
           /\ summaryReady' = ready
           /\ attempts' = n
           /\ UNCHANGED << error, loading, docId >>
      ELSE /\ error' = ErrorAfterLoop(ready, error)
           /\ loading' = FALSE
           /\ Return

\* an outer catch that reports the error and falls into the polling loop
CatchUploadErrorThenPoll ==
    /\ error' = MsgUploadFailed
    /\ fPc' = "delay"
    /\ UNCHANGED << loading, docId, attempts, summaryReady >>

\* an outer catch that leaves loading set
CatchUploadErrorStillLoading ==
    /\ error' = MsgUploadFailed
    /\ UNCHANGED loading
    /\ Return

\* The outer catch
CatchUploadError ==
    /\ error' = MsgUploadFailed
    /\ loading' = FALSE
    /\ Return

\* no inner catch: the error of a status query reaches the outer catch
CatchPollErrorOutside ==
    /\ UNCHANGED << summary, processingStatus >>
    /\ error' = MsgUploadFailed
    /\ loading' = FALSE
    /\ Return

\* The inner catch: console.log, then the iteration goes on
CatchPollError ==
    /\ UNCHANGED << summary, processingStatus >>
    /\ AfterIteration(summaryReady, attempts + 1)

\* const docId = uploadResult.document_id
UploadedDocumentId(uploadResult) == uploadResult.document_id

\* The click on "Upload & Summarize" (disabled while loading or without a file),
\* up to the await of uploadDocument
summarizeFile ==
    /\ mounted
    /\ ~loading
    /\ file # << >>
    /\ IF file = << >>
         THEN /\ error' = MsgNoFile
              /\ UNCHANGED << loading, processingStatus, requests, fPc, historyVars >>
         ELSE /\ loading' = TRUE
              /\ error' = ""
              /\ processingStatus' = StatusUploading
              /\ requests' = [requests EXCEPT
                    !["summarizeFile"] = << uploadDocument(file[1], RequestOptions) >>]
              /\ fPc' = "upload"
              /\ pollCalls' = 0
              /\ pollLog' = << "none", "none" >>
              /\ UNCHANGED summaryDocId
    /\ UNCHANGED << inputVars, summary, documentId >>
    /\ UNCHANGED << tPc, bPc, docId, attempts, summaryReady >>
    /\ UNCHANGED << replies, mounted, statusTimers >>
    /\ UNCHANGED << uploadVars, hookVars, fileHookVars, historyPanelVars >>

\* uploadDocument settled: the continuation up to the first delay, or the catch
summarizeFileUploaded ==
    /\ fPc = "upload"
    /\ replies["summarizeFile"] # << >>
    /\ LET uploadResult == replies["summarizeFile"][1] IN
         IF uploadResult.ok
           THEN /\ documentId' = UploadedDocumentId(uploadResult)
                /\ processingStatus' = StatusProcessing
                /\ IF LoopContinues(FALSE, 0)
                     THEN /\ docId' = UploadedDocumentId(uploadResult)
                          /\ summaryReady' = FALSE
                          /\ attempts' = 0
                          /\ fPc' = "delay"
                          /\ UNCHANGED << error, loading >>
                     ELSE /\ error' = ErrorAfterLoop(FALSE, error)
                          /\ loading' = FALSE
                          /\ Return
           ELSE /\ CatchUploadError
                /\ UNCHANGED << documentId, processingStatus >>
    /\ Settle("summarizeFile")
    /\ UNCHANGED << inputVars, summary, tPc, bPc, historyVars, mounted, statusTimers >>
    /\ UNCHANGED << uploadVars, hookVars, fileHookVars, historyPanelVars >>

\* The 2 second timer fired: getSummary(docId) is sent
summarizeFileDelayed ==
    /\ fPc = "delay"
    /\ requests' = [requests EXCEPT !["summarizeFile"] = << getSummary(docId) >>]
    /\ fPc' = "poll"
    /\ pollCalls' = pollCalls + 1
    /\ UNCHANGED << inputVars, outputVars, tPc, bPc, docId, attempts, summaryReady >>
    /\ UNCHANGED << replies, pollLog, summaryDocId, mounted, statusTimers >>
    /\ UNCHANGED << uploadVars, hookVars, fileHookVars, historyPanelVars >>

\* getSummary settled: the rest of the iteration, the loop test, and either the
\* next delay or the end of the handler
summarizeFilePolled ==
    /\ fPc = "poll"
    /\ replies["summarizeFile"] # << >>
    /\ LET summaryResponse == replies["summarizeFile"][1] IN
         IF summaryResponse.ok
           THEN IF IsCompleted(summaryResponse)
                  THEN /\ summary' = summaryResponse.summary
                       /\ UNCHANGED processingStatus
                       /\ AfterIteration(TRUE, attempts + 1)
                       /\ pollLog' = << pollLog[2], "completed" >>
                       /\ summaryDocId' = docId
                  ELSE /\ processingStatus' = Progress(attempts + 1, maxAttempts)
                       /\ UNCHANGED summary
                       /\ AfterIteration(summaryReady, attempts + 1)
                       /\ pollLog' = << pollLog[2], NotCompletedOutcome(summaryResponse) >>
                       /\ UNCHANGED summaryDocId
           ELSE /\ CatchPollError
                /\ pollLog' = << pollLog[2], "error" >>
                /\ UNCHANGED summaryDocId
    /\ Settle("summarizeFile")
    /\ UNCHANGED << inputVars, documentId, tPc, bPc, pollCalls, mounted, statusTimers >>
    /\ UNCHANGED << uploadVars, hookVars, fileHookVars, historyPanelVars >>

---------------------------------------------------------------------------
\* TextSummarizationTool: the text area and the two length sliders

\* handleTextChange; the text area is disabled while loading
handleTextChange ==
    /\ mounted
    /\ ~loading
    /\ \E value \in Texts :
          /\ value # text
          /\ text' = value
    /\ UNCHANGED << file, feedback, rating, selectedModel, summaryOptions, advancedOptions >>
    /\ UNCHANGED << outputVars, frameVars, netVars, historyVars, mounted, statusTimers >>
    /\ UNCHANGED << uploadVars, hookVars, fileHookVars, historyPanelVars >>

\* parseInt of a string of decimal digits
RECURSIVE parseInt(_)
parseInt(digits) ==
    IF digits = << >>
      THEN 0
      ELSE 10 * parseInt(SubSeq(digits, 1, Len(digits) - 1)) + digits[Len(digits)]

\* setSummaryOptions({...summaryOptions, [name]: parseInt(value)})
WithOption(options, name, value) == [options EXCEPT ![name] = parseInt(value)]

\* handleOptionsChange; the sliders are disabled while loading
handleOptionsChange ==
    /\ mounted
    /\ ~loading
    /\ \E name \in {"maxLength", "minLength"} :
          \E value \in SliderValues[name] :
             /\ WithOption(summaryOptions, name, value) # summaryOptions
             /\ summaryOptions' = WithOption(summaryOptions, name, value)
    /\ UNCHANGED << text, file, feedback, rating, selectedModel, advancedOptions >>
    /\ UNCHANGED << outputVars, frameVars, netVars, historyVars, mounted, statusTimers >>
    /\ UNCHANGED << uploadVars, hookVars, fileHookVars, historyPanelVars >>

---------------------------------------------------------------------------
\* TextSummarizationTool: the model selector and the advanced options

\* ModelSelector's mockModels ids, and the null of "Reset Selection" (as "")
ModelIds == {"gpt-3.5-turbo", "gpt-4", "bart-large-cnn", "t5-base", ""}

\* The controls of AdvancedOptions that are modelled, with their values (the
\* temperature slider is left alone)
AdvancedInputs ==
    [ format |-> {"paragraph", "bullets", "numbered"},
      includeKeywords |-> {TRUE, FALSE},
      language |-> {"auto", "en", "es", "fr", "de", "zh"} ]

\* controls that stay enabled during a submission
ControlsNeverDisabled == FALSE

\* disabled={loading} of ModelSelector and AdvancedOptions
ControlsDisabled == loading

\* handleModelSelect, called by ModelSelector: !disabled && onModelSelect(id)
handleModelSelect ==
    /\ mounted
    /\ ~ControlsDisabled
    /\ \E modelId \in ModelIds :
          /\ modelId # selectedModel
          /\ selectedModel' = modelId
    /\ UNCHANGED << text, file, feedback, rating, summaryOptions, advancedOptions >>
    /\ UNCHANGED << outputVars, frameVars, netVars, historyVars, mounted, statusTimers >>
    /\ UNCHANGED << uploadVars, hookVars, fileHookVars, historyPanelVars >>

\* handleAdvancedOptionsChange, called by AdvancedOptions' handleChange with
\* {...options, [name]: newValue}; its inputs are disabled while loading
handleAdvancedOptionsChange ==
    /\ mounted
    /\ ~ControlsDisabled
    /\ \E name \in DOMAIN AdvancedInputs :
          \E newValue \in AdvancedInputs[name] :
             /\ advancedOptions[name] # newValue
             /\ advancedOptions' = [advancedOptions EXCEPT ![name] = newValue]
    /\ UNCHANGED << text, file, feedback, rating, selectedModel, summaryOptions >>
    /\ UNCHANGED << outputVars, frameVars, netVars, historyVars, mounted, statusTimers >>
    /\ UNCHANGED << uploadVars, hookVars, fileHookVars, historyPanelVars >>

\* resetAdvancedOptions, the "Reset to Defaults" button (disabled while loading)
resetAdvancedOptions ==
    /\ mounted
    /\ ~ControlsDisabled
    /\ advancedOptions # DefaultAdvancedOptions
    /\ advancedOptions' = DefaultAdvancedOptions
    /\ UNCHANGED << text, file, feedback, rating, selectedModel, summaryOptions >>
    /\ UNCHANGED << outputVars, frameVars, netVars, historyVars, mounted, statusTimers >>
    /\ UNCHANGED << uploadVars, hookVars, fileHookVars, historyPanelVars >>

---------------------------------------------------------------------------
\* TextSummarizationTool: summarizeText

RECURSIVE TrimStart(_)
TrimStart(s) ==
    IF s # << >> /\ Head(s) \in Whitespace THEN TrimStart(Tail(s)) ELSE s

RECURSIVE TrimEnd(_)
TrimEnd(s) ==
    IF s # << >> /\ s[Len(s)] \in Whitespace
      THEN TrimEnd(SubSeq(s, 1, Len(s) - 1))
      ELSE s

\* the text taken as it is, without trim()
Untrimmed(s) == s

\* text.trim()
Trim(s) == TrimEnd(TrimStart(s))

\* The click on "Summarize Text" (disabled while loading), up to the await of
\* summarizationService.summarizeText
summarizeText ==
    /\ mounted
    /\ ~loading
    /\ IF Trim(text) = << >>
         THEN /\ error' = MsgEmptyText
              /\ UNCHANGED << loading, processingStatus, requests, tPc >>
         ELSE /\ loading' = TRUE
              /\ error' = ""
              /\ processingStatus' = StatusGenerating
              /\ requests' = [requests EXCEPT
                    !["summarizeText"] = << serviceSummarizeText(text, RequestOptions) >>]
              /\ tPc' = "await"
    /\ UNCHANGED << inputVars, summary, documentId >>
    /\ UNCHANGED << fPc, bPc, docId, attempts, summaryReady >>
    /\ UNCHANGED << replies, historyVars, mounted, statusTimers >>
    /\ UNCHANGED << uploadVars, hookVars, fileHookVars, historyPanelVars >>

\* a continuation that leaves the document id as it was
ResultDocumentIdIgnored(result) == documentId

\* setDocumentId(result.document_id)
ResultDocumentId(result) == result.document_id

\* summarizationService.summarizeText settled: the rest of the try, or the catch
summarizeTextSettled ==
    /\ tPc = "await"
    /\ replies["summarizeText"] # << >>
    /\ LET result == replies["summarizeText"][1] IN
         IF result.ok
           THEN /\ summary' = result.summary
                /\ documentId' = ResultDocumentId(result)
                /\ summaryDocId' = result.document_id
                /\ loading' = FALSE
                /\ UNCHANGED error
           ELSE /\ error' = MsgSummarizeFailed
                /\ loading' = FALSE
                /\ UNCHANGED << summary, documentId, summaryDocId >>
    /\ tPc' = "idle"
    /\ Settle("summarizeText")
    /\ UNCHANGED << inputVars, processingStatus >>
    /\ UNCHANGED << fPc, bPc, docId, attempts, summaryReady >>
    /\ UNCHANGED << pollCalls, pollLog, mounted, statusTimers >>
    /\ UNCHANGED << uploadVars, hookVars, fileHookVars, historyPanelVars >>

---------------------------------------------------------------------------
\* TextSummarizationTool: the feedback section (rendered when summary is truthy)

\* a row of stars that starts at 0 and has one star too many
starsFromZero == 0..(maxRating + 1)

\* Rating: Array.from({ length: maxRating }, (_, i) => i + 1)
stars == 1..maxRating

\* Rating: a star clicked or hovered, !disabled && setRating(star)
setRating ==
    /\ mounted
    /\ summary # ""
    /\ ~loading
    /\ \E star \in stars :
          /\ star # rating
          /\ rating' = star
    /\ UNCHANGED << text, file, feedback, selectedModel, summaryOptions, advancedOptions >>
    /\ UNCHANGED << outputVars, frameVars, netVars, historyVars, mounted, statusTimers >>
    /\ UNCHANGED << uploadVars, hookVars, fileHookVars, historyPanelVars >>

\* The feedback text area: onChange={(e) => setFeedback(e.target.value)}
setFeedback ==
    /\ mounted
    /\ summary # ""
    /\ ~loading
    /\ \E value \in FeedbackTexts :
          /\ value # feedback
          /\ feedback' = value
    /\ UNCHANGED << text, file, rating, selectedModel, summaryOptions, advancedOptions >>
    /\ UNCHANGED << outputVars, frameVars, netVars, historyVars, mounted, statusTimers >>
    /\ UNCHANGED << uploadVars, hookVars, fileHookVars, historyPanelVars >>

\* The object submitFeedback hands to the service
FeedbackRecord ==
    [ document_id |-> documentId,
      summary_id |-> documentId,
      rating |-> rating,
      feedback_text |-> feedback,
      original_summary |-> summary ]

\* a form that keeps what was entered after a successful submission
FeedbackFormKept == << feedback, rating >>

\* setFeedback(''); setRating(0)
FeedbackFormReset == << "", 0 >>

\* The click on "Submit Feedback" (disabled while loading or without a rating),
\* up to the await of summarizationService.submitFeedback
submitFeedback ==
    /\ mounted
    /\ summary # ""
    /\ ~(loading \/ rating = 0)
    /\ statusTimers < MaxStatusTimers
    /\ IF rating = 0
         THEN /\ error' = MsgNoRating
              /\ UNCHANGED << loading, processingStatus, requests, bPc >>
         ELSE /\ loading' = TRUE
              /\ error' = ""
              /\ processingStatus' = StatusSubmitting
              /\ requests' = [requests EXCEPT
                    !["submitFeedback"] = << serviceSubmitFeedback(FeedbackRecord) >>]
              /\ bPc' = "await"
    /\ UNCHANGED << inputVars, summary, documentId >>
    /\ UNCHANGED << tPc, fPc, docId, attempts, summaryReady >>
    /\ UNCHANGED << replies, historyVars, mounted, statusTimers >>
    /\ UNCHANGED << uploadVars, hookVars, fileHookVars, historyPanelVars >>

\* summarizationService.submitFeedback settled: the rest of the try (with the
\* 3 second timer started), or the catch
submitFeedbackSettled ==
    /\ bPc = "await"
    /\ replies["submitFeedback"] # << >>
    /\ IF replies["submitFeedback"][1].ok
         THEN /\ processingStatus' = StatusFeedbackDone
              /\ statusTimers' = statusTimers + 1
              /\ feedback' = FeedbackFormReset[1]
              /\ rating' = FeedbackFormReset[2]
              /\ loading' = FALSE
              /\ UNCHANGED error
         ELSE /\ error' = MsgFeedbackFailed
              /\ loading' = FALSE
              /\ UNCHANGED << processingStatus, statusTimers, feedback, rating >>
    /\ bPc' = "idle"
    /\ Settle("submitFeedback")
    /\ UNCHANGED << text, file, selectedModel, summaryOptions, advancedOptions >>
    /\ UNCHANGED << summary, documentId >>
    /\ UNCHANGED << tPc, fPc, docId, attempts, summaryReady >>
    /\ UNCHANGED << historyVars, mounted >>
    /\ UNCHANGED << uploadVars, hookVars, fileHookVars, historyPanelVars >>

\* setTimeout(() => setProcessingStatus(''), 3000): a timer fires
statusTimerFired ==
    /\ statusTimers > 0
    /\ statusTimers' = statusTimers - 1
    /\ processingStatus' = StatusNone
    /\ UNCHANGED << inputVars, summary, loading, documentId, error >>
    /\ UNCHANGED << frameVars, netVars, historyVars, mounted >>
    /\ UNCHANGED << uploadVars, hookVars, fileHookVars, historyPanelVars >>

---------------------------------------------------------------------------
\* validateFile (the validation utility) and FileUpload

\* String.prototype.toLowerCase on the name parts that occur
toLowerCase(part) ==
    CASE part = "TXT" -> "txt"
      [] OTHER -> part

\* '.' + part
WithDot(part) ==
    CASE part = "txt" -> ".txt"
      [] part = "pdf" -> ".pdf"
      [] part = "docx" -> ".docx"
      [] part = "doc" -> ".doc"
      [] part = "exe" -> ".exe"
      [] part = "png" -> ".png"
      [] OTHER -> ".?"

\* '.' + file.name.split('.').pop().toLowerCase()
Extension(f) == WithDot(toLowerCase(f.name[Len(f.name)]))

Includes(list, x) == \E i \in 1..Len(list) : list[i] = x

\* validateFile's two messages
MsgSizeExceeds == "File size exceeds 10MB limit"
MsgTypeNotAllowed == "File type not allowed. Allowed types: .txt, .pdf, .docx, .doc"

\* validateFile(file), file given as << >> (no file) or << f >>
validateFile(sel) ==
    IF sel = << >>
      THEN [isValid |-> FALSE, errors |-> << "No file selected" >>]
      ELSE LET f == sel[1]
               sizeErrors == IF f.size > MAX_SIZE THEN << MsgSizeExceeds >> ELSE << >>
               typeErrors == IF ~Includes(ALLOWED_EXTENSIONS, Extension(f))
                               THEN << MsgTypeNotAllowed >> ELSE << >>
               errors == sizeErrors \o typeErrors
           IN  [isValid |-> Len(errors) = 0, errors |-> errors]

\* A call of validateFile; its result is kept
ValidateFileCall ==
    /\ \E sel \in {<< f >> : f \in CandidateFiles} \cup {<< >>} :
          /\ validation' = validateFile(sel)
          /\ validation' # validation
    /\ UNCHANGED << fuError, selectedFiles >>
    /\ UNCHANGED << toolVars, hookVars, fileHookVars, historyPanelVars >>

\* validateFiles' two reasons
ReasonSize == "exceeds 10MB size limit"
ReasonType == "invalid file type"

\* The body of validateFiles' forEach for one file: the entries it pushes to
\* invalidFiles (it returns after the first)
InvalidEntries(f) ==
    IF f.size > maxSize * 1024 * 1024
      THEN << [name |-> f.name, reason |-> ReasonSize] >>
    ELSE IF ~(\E i \in 1..Len(acceptedTypes) :
                 acceptedTypes[i] = Extension(f) \/ acceptedTypes[i] = f.type)
      THEN << [name |-> f.name, reason |-> ReasonType] >>
    ELSE << >>

\* validateFiles([f]): the invalidFiles list (joined into the error shown) and
\* the validFiles list
validateFiles(f) ==
    [ invalidFiles |-> InvalidEntries(f),
      validFiles |-> IF InvalidEntries(f) = << >> THEN << f >> ELSE << >> ]

\* What handleChange and handleDrop do with the first file given (multiple is
\* false): validateFiles, and for a valid file setSelectedFiles and onFileSelect
FileChosen(f) ==
    LET v == validateFiles(f) IN
      IF Len(v.invalidFiles) > 0
        THEN /\ fuError' = v.invalidFiles
             /\ UNCHANGED << selectedFiles, file, documentId, summary >>
        ELSE /\ fuError' = << >>
             /\ selectedFiles' = << v.validFiles[1] >>
             /\ handleFileUpload(<< v.validFiles[1] >>)

\* handleChange: a file picked in the dialog; the input is disabled while loading
handleChange ==
    /\ mounted
    /\ ~loading
    /\ \E f \in CandidateFiles : FileChosen(f)
    /\ UNCHANGED validation
    /\ UNCHANGED << text, feedback, rating, selectedModel, summaryOptions, advancedOptions >>
    /\ UNCHANGED << loading, error, processingStatus >>
    /\ UNCHANGED << frameVars, netVars, historyVars, mounted, statusTimers >>
    /\ UNCHANGED << hookVars, fileHookVars, historyPanelVars >>

\* handleDrop: a file dropped on the zone; onDrop is null while loading
handleDrop ==
    /\ mounted
    /\ ~loading
    /\ \E f \in CandidateFiles : FileChosen(f)
    /\ UNCHANGED validation
    /\ UNCHANGED << text, feedback, rating, selectedModel, summaryOptions, advancedOptions >>
    /\ UNCHANGED << loading, error, processingStatus >>
    /\ UNCHANGED << frameVars, netVars, historyVars, mounted, statusTimers >>
    /\ UNCHANGED << hookVars, fileHookVars, historyPanelVars >>

\* removeFile: the Remove button of a selected file, disabled while loading
removeFile ==
    /\ mounted
    /\ ~loading
    /\ \E i \in 1..Len(selectedFiles) :
          LET updatedFiles == SelectSeq(selectedFiles, LAMBDA g : g # selectedFiles[i]) IN
            /\ selectedFiles' = updatedFiles
            /\ handleFileUpload(IF updatedFiles # << >> THEN << updatedFiles[1] >> ELSE << >>)
    /\ UNCHANGED << fuError, validation >>
    /\ UNCHANGED << text, feedback, rating, selectedModel, summaryOptions, advancedOptions >>
    /\ UNCHANGED << loading, error, processingStatus >>
    /\ UNCHANGED << frameVars, netVars, historyVars, mounted, statusTimers >>
    /\ UNCHANGED << hookVars, fileHookVars, historyPanelVars >>

---------------------------------------------------------------------------
\* useSummarization

\* The results the service functions can return to the hook, and the two kinds
\* of error they throw: an Error with a message, or the response body
HookReplies ==
    {OkReply("", s, "d1") : s \in Summaries}
      \cup {ErrReply, [ErrReply EXCEPT !.message = ""]}

\* The part summarizeText and summarizeFile share, up to the await
HookCallStarted(fn) ==
    /\ Len(hCalls) < MaxHookCalls
    /\ hLoading' = TRUE
    /\ hError' = ""
    /\ hCalls' = Append(hCalls, [fn |-> fn, pc |-> "await", reply |-> << >>])
    /\ UNCHANGED hSummary
    /\ UNCHANGED << toolVars, uploadVars, fileHookVars, historyPanelVars >>

\* useSummarization's summarizeText, up to the await
useSummarizeText == HookCallStarted("summarizeText")

\* useSummarization's summarizeFile, up to the await
useSummarizeFile == HookCallStarted("summarizeFile")

\* The transport answers a call of the hook
HookTransportReply ==
    /\ \E i \in 1..Len(hCalls) :
          /\ hCalls[i].pc = "await"
          /\ hCalls[i].reply = << >>
          /\ \E r \in HookReplies : hCalls' = [hCalls EXCEPT ![i].reply = << r >>]
    /\ UNCHANGED << hLoading, hError, hSummary >>
    /\ UNCHANGED << toolVars, uploadVars, fileHookVars, historyPanelVars >>

\* err.message || 'Failed to ...'
HookErrorMessage(fn, err) ==
    IF err.message # ""
      THEN err.message
      ELSE IF fn = "summarizeText"
             THEN "Failed to generate summary"
             ELSE "Failed to process document"

\* A call's await returns: the rest of the try or the catch, and the finally
useSummarizeSettled ==
    /\ \E i \in 1..Len(hCalls) :
          /\ hCalls[i].pc = "await"
          /\ hCalls[i].reply # << >>
          /\ LET result == hCalls[i].reply[1] IN
               IF result.ok
                 THEN /\ hSummary' = << result >>
                      /\ UNCHANGED hError
                 ELSE /\ hError' = HookErrorMessage(hCalls[i].fn, result)
                      /\ UNCHANGED hSummary
          /\ hLoading' = FALSE
          /\ hCalls' = [hCalls EXCEPT ![i].pc = "done"]
    /\ UNCHANGED << toolVars, uploadVars, fileHookVars, historyPanelVars >>

\* reset
useSummarizationReset ==
    /\ hSummary' = << >>
    /\ hError' = ""
    /\ hLoading' = FALSE
    /\ << hSummary, hError, hLoading >> # << << >>, "", FALSE >>
    /\ UNCHANGED hCalls
    /\ UNCHANGED << toolVars, uploadVars, fileHookVars, historyPanelVars >>

---------------------------------------------------------------------------
\* useFileUpload and fileService

\* The files handed to uploadFile: one name, every size
UploadFiles == {f \in CandidateFiles : f.name = << "report", "pdf" >>}

\* `File size exceeds ${MAX_FILE_SIZE_MB} MB limit.`
MsgFileTooLarge == "File size exceeds 10 MB limit."

\* a size test that also refuses a file of exactly the limit
AtLeastMB(size, mb) == size >= mb * 1024 * 1024

\* fileSizeMB > MAX_FILE_SIZE_MB with fileSizeMB = file.size / (1024 * 1024):
\* the division by 2^20 is exact, so the test is size > mb * 2^20
ExceedsMB(size, mb) == size > mb * 1024 * 1024

\* What the post can answer: the body of a 2xx response, an Error with a
\* message, or the body of an error response (no message)
UploadReplies ==
    {OkReply("", "", d) : d \in DocIds} \cup {ErrReply, [ErrReply EXCEPT !.message = ""]}

\* The frame of a call: who was called, the file, where it is, the answer of
\* the post, and the message of the error thrown to the caller
UploadCall(via, f, pc, thrown) ==
    [via |-> via, file |-> f, pc |-> pc, reply |-> << >>, thrown |-> thrown]

\* fileService.uploadFile up to its await: the size test (the Error thrown is
\* rethrown by its catch), or the post
fileServiceUploadFile(via, f) ==
    IF ExceedsMB(f.size, MAX_FILE_SIZE_MB)
      THEN /\ upCalls' = Append(upCalls, UploadCall(via, f, "done", MsgFileTooLarge))
           /\ UNCHANGED apiPosts
      ELSE /\ upCalls' = Append(upCalls, UploadCall(via, f, "await", ""))
           /\ apiPosts' = apiPosts + 1

\* A direct call of fileService.uploadFile
fileServiceCall ==
    /\ Len(upCalls) < MaxUploadCalls
    /\ \E f \in UploadFiles : fileServiceUploadFile("fileService", f)
    /\ UNCHANGED << ufLoading, ufError, uploadProgress >>
    /\ UNCHANGED << toolVars, uploadVars, hookVars, historyPanelVars >>

\* useFileUpload's uploadFile up to its await
useFileUploadCall ==
    /\ Len(upCalls) < MaxUploadCalls
    /\ uploadProgress' = 0
    /\ \E f \in UploadFiles :
          IF ExceedsMB(f.size, MAX_FILE_SIZE_MB)
            THEN /\ ufError' = MsgFileTooLarge
                 /\ ufLoading' = FALSE
                 /\ upCalls' = Append(upCalls, UploadCall("useFileUpload", f, "done", MsgFileTooLarge))
                 /\ UNCHANGED apiPosts
            ELSE /\ ufError' = ""
                 /\ ufLoading' = TRUE
                 /\ fileServiceUploadFile("useFileUpload", f)
    /\ UNCHANGED << toolVars, uploadVars, hookVars, historyPanelVars >>

\* The transport answers a post
UploadTransportReply ==
    /\ \E i \in 1..Len(upCalls) :
          /\ upCalls[i].pc = "await"
          /\ upCalls[i].reply = << >>
          /\ \E r \in UploadReplies : upCalls' = [upCalls EXCEPT ![i].reply = << r >>]
    /\ UNCHANGED << ufLoading, ufError, uploadProgress, apiPosts >>
    /\ UNCHANGED << toolVars, uploadVars, hookVars, historyPanelVars >>

\* err.message || 'Failed to upload file'
UploadErrorMessage(err) ==
    IF err.message # "" THEN err.message ELSE "Failed to upload file"

\* A call's await returns: fileService returns response.data or throws, and
\* the hook's try, catch and finally run
uploadFileSettled ==
    /\ \E i \in 1..Len(upCalls) :
          /\ upCalls[i].pc = "await"
          /\ upCalls[i].reply # << >>
          /\ LET result == upCalls[i].reply[1] IN
               /\ upCalls' = [upCalls EXCEPT
                     ![i].pc = "done",
                     ![i].thrown = IF result.ok THEN "" ELSE UploadErrorMessage(result)]
               /\ IF upCalls[i].via = "useFileUpload"
                    THEN /\ IF result.ok
                              THEN uploadProgress' = 100 /\ UNCHANGED ufError
                              ELSE ufError' = UploadErrorMessage(result) /\ UNCHANGED uploadProgress
                         /\ ufLoading' = FALSE
                    ELSE UNCHANGED << ufLoading, ufError, uploadProgress >>
    /\ UNCHANGED apiPosts
    /\ UNCHANGED << toolVars, uploadVars, hookVars, historyPanelVars >>

---------------------------------------------------------------------------
\* HistoryPanel

\* The items fetchHistory returns (the date is not modelled)
HistoryItems ==
    { [id |-> "1", documentId |-> "doc123", summary |-> "Sample summary"],
      [id |-> "2", documentId |-> "doc456", summary |-> "Another summary"] }

HistoryLists == SeqUpTo(HistoryItems, MaxHistoryLen)

\* How the promise of fetchHistory settles: resolved with a list, or rejected
HistoryResults ==
    {[ok |-> TRUE, data |-> h] : h \in HistoryLists} \cup {[ok |-> FALSE, data |-> << >>]}

MsgHistoryFailed == "Failed to load history. Please try again later."

\* What the component renders
HistoryPanelView ==
    IF hpLoading
      THEN [shows |-> "Loading history...", message |-> "", items |-> << >>]
    ELSE IF hpError # ""
      THEN [shows |-> "error-message", message |-> hpError, items |-> << >>]
    ELSE [shows |-> "history-panel", message |-> "", items |-> hpHistory]

\* The route /history is entered: a new instance with its initial state, and its
\* effect calls loadHistory, which awaits fetchHistory()
HistoryPanelMount ==
    /\ ~hpMounted
    /\ hpInst < MaxHistoryMounts
    /\ hpInst' = hpInst + 1
    /\ hpMounted' = TRUE
    /\ hpHistory' = << >>
    /\ hpLoading' = TRUE
    /\ hpError' = ""
    /\ hpFetches' = Append(hpFetches, [pc |-> "await", result |-> << >>])
    /\ UNCHANGED << toolVars, uploadVars, hookVars, fileHookVars >>

\* The route is left: the instance is gone (loadHistory is not cancelled)
HistoryPanelUnmount ==
    /\ hpMounted
    /\ hpMounted' = FALSE
    /\ UNCHANGED << hpInst, hpHistory, hpLoading, hpError, hpFetches >>
    /\ UNCHANGED << toolVars, uploadVars, hookVars, fileHookVars >>

\* The promise of a fetchHistory call settles
fetchHistorySettles ==
    /\ \E i \in 1..Len(hpFetches) :
          /\ hpFetches[i].pc = "await"
          /\ hpFetches[i].result = << >>
          /\ \E r \in HistoryResults : hpFetches' = [hpFetches EXCEPT ![i].result = << r >>]
    /\ UNCHANGED << hpInst, hpMounted, hpHistory, hpLoading, hpError >>
    /\ UNCHANGED << toolVars, uploadVars, hookVars, fileHookVars >>

\* a finally that clears loading only after a resolved fetch
LoadingClearedOnSuccess(result) == ~result.ok

\* finally { setLoading(false) }
LoadingAfterFetch(result) == FALSE

\* loadHistory's await returns: the try or the catch, and the finally; the
\* setters of an instance that is gone do nothing
loadHistory ==
    /\ \E i \in 1..Len(hpFetches) :
          /\ hpFetches[i].pc = "await"
          /\ hpFetches[i].result # << >>
          /\ hpFetches' = [hpFetches EXCEPT ![i].pc = "done"]
          /\ LET result == hpFetches[i].result[1] IN
               IF hpMounted /\ i = hpInst
                 THEN /\ IF result.ok
                           THEN hpHistory' = result.data /\ UNCHANGED hpError
                           ELSE hpError' = MsgHistoryFailed /\ UNCHANGED hpHistory
                      /\ hpLoading' = LoadingAfterFetch(result)
                 ELSE UNCHANGED << hpHistory, hpLoading, hpError >>
    /\ UNCHANGED << hpInst, hpMounted >>
    /\ UNCHANGED << toolVars, uploadVars, hookVars, fileHookVars >>

---------------------------------------------------------------------------
\* The user leaves the page: the router unmounts the component.  Its handlers
\* keep running; nothing cancels them.

NavigateAway ==
    /\ mounted
    /\ mounted' = FALSE
    /\ UNCHANGED << inputVars, outputVars, frameVars, netVars, historyVars, statusTimers >>
    /\ UNCHANGED << uploadVars, hookVars, fileHookVars, historyPanelVars >>

---------------------------------------------------------------------------
\* The file summarization workflow

Next ==
    \/ SelectFile
    \/ summarizeFile
    \/ TransportReply("summarizeFile")
    \/ summarizeFileUploaded
    \/ summarizeFileDelayed
    \/ summarizeFilePolled
    \/ NavigateAway

Spec == Init /\ [][Next]_vars

\* The text summarization workflow, with the length options
TextNext ==
    \/ handleTextChange
    \/ handleOptionsChange
    \/ summarizeText
    \/ TransportReply("summarizeText")
    \/ summarizeTextSettled
    \/ NavigateAway

TextSpec == Init /\ [][TextNext]_vars

\* The two submission workflows of the component together, with one text
CycleNext ==
    \/ (handleTextChange /\ text' = << "a" >>)
    \/ summarizeText
    \/ summarizeTextSettled
    \/ SelectFile
    \/ summarizeFile
    \/ (\E h \in {"summarizeText", "summarizeFile"} : TransportReply(h))
    \/ summarizeFileUploaded
    \/ summarizeFileDelayed
    \/ summarizeFilePolled

CycleSpec == Init /\ [][CycleNext]_vars

\* The two submission workflows with every input control, each control with
\* one value to change to
IntentNext ==
    \/ (handleTextChange /\ text' = << "a" >>)
    \/ (handleOptionsChange /\ summaryOptions' = [maxLength |-> 500, minLength |-> 40])
    \/ (handleModelSelect /\ selectedModel' = "gpt-4")
    \/ (handleAdvancedOptionsChange
          /\ advancedOptions' = [DefaultAdvancedOptions EXCEPT !.format = "bullets"])
    \/ resetAdvancedOptions
    \/ SelectFile
    \/ summarizeText
    \/ summarizeTextSettled
    \/ summarizeFile
    \/ (\E h \in {"summarizeText", "summarizeFile"} : TransportReply(h))
    \/ summarizeFileUploaded
    \/ summarizeFileDelayed
    \/ summarizeFilePolled

IntentSpec == Init /\ [][IntentNext]_vars

\* The feedback workflow, after a text summarization
FeedbackNext ==
    \/ handleTextChange
    \/ summarizeText
    \/ TransportReply("summarizeText")
    \/ summarizeTextSettled
    \/ setRating
    \/ setFeedback
    \/ submitFeedback
    \/ TransportReply("submitFeedback")
    \/ submitFeedbackSettled
    \/ statusTimerFired
    \/ NavigateAway

FeedbackSpec == Init /\ [][FeedbackNext]_vars

\* The feedback workflow with the file picker beside it
SelectNext ==
    \/ FeedbackNext
    \/ SelectFile

SelectSpec == Init /\ [][SelectNext]_vars

\* The three submission cycles, with one text and one rating to enter and one
\* document and one summary on the server
LiveNext ==
    \/ (handleTextChange /\ text' = << "a" >>)
    \/ summarizeText
    \/ summarizeTextSettled
    \/ SelectFile
    \/ summarizeFile
    \/ summarizeFileUploaded
    \/ summarizeFileDelayed
    \/ summarizeFilePolled
    \/ (setRating /\ rating' = maxRating)
    \/ submitFeedback
    \/ submitFeedbackSettled
    \/ statusTimerFired
    \/ (\E h \in Handlers :
          /\ TransportReply(h)
          /\ replies'[h][1].summary \in {"", "S1"}
          /\ replies'[h][1].document_id \in {"", "d1"})

\* Every request is answered, every delay ends, and the event loop runs the
\* continuation of an await that has returned
LiveSpec ==
    /\ Init
    /\ [][LiveNext]_vars
    /\ \A h \in Handlers : WF_vars(TransportReply(h))
    /\ WF_vars(summarizeTextSettled)
    /\ WF_vars(summarizeFileUploaded)
    /\ WF_vars(summarizeFileDelayed)
    /\ WF_vars(summarizeFilePolled)
    /\ WF_vars(submitFeedbackSettled)

\* The file picker and the validation utility
UploadNext ==
    \/ handleChange
    \/ handleDrop
    \/ removeFile
    \/ ValidateFileCall

UploadSpec == Init /\ [][UploadNext]_vars

\* The history page
HistoryNext ==
    \/ HistoryPanelMount
    \/ HistoryPanelUnmount
    \/ fetchHistorySettles
    \/ loadHistory

HistorySpec == Init /\ [][HistoryNext]_vars

\* The upload hook and the file service
FileHookNext ==
    \/ useFileUploadCall
    \/ fileServiceCall
    \/ UploadTransportReply
    \/ uploadFileSettled

FileHookSpec == Init /\ [][FileHookNext]_vars

\* The hook, called by a component that does not wait for a call to end
HookNext ==
    \/ useSummarizeText
    \/ useSummarizeFile
    \/ HookTransportReply
    \/ useSummarizeSettled
    \/ useSummarizationReset

HookSpec == Init /\ [][HookNext]_vars

---------------------------------------------------------------------------
\* Properties of summarizeFile's polling loop

\* The answer summarizeFile's await is about to receive
FileReply == replies["summarizeFile"][1]

\* The status endpoint answered 'completed'
Completed(r) == r.ok /\ r.status = "completed"

\* C1: polling ends after exactly maxAttempts (30) status queries when none of
\* them answers 'completed': never more than 30 queries are sent, the loop ends
\* without a 'completed' answer only at the 30th query and then shows the
\* timeout error, and no status query is sent once the handler has ended.
PollingStopsAtMaxAttempts ==
    /\ [](pollCalls <= maxAttempts)
    /\ [][ (fPc = "poll" /\ fPc' # "poll" /\ ~Completed(FileReply))
             => IF pollCalls = maxAttempts
                  THEN /\ fPc' = "idle"
                       /\ ~loading'
                       /\ error' = MsgTimeout
                       /\ requests'["summarizeFile"] = << >>
                  ELSE fPc' = "delay" /\ pollCalls < maxAttempts ]_vars
    /\ [][ (fPc = "idle" /\ pollCalls' # pollCalls)
             => (fPc' = "upload" /\ pollCalls' = 0) ]_vars

\* C1 witness: a run ended by 30 status queries without a 'completed' answer
TimedOutAfterMaxAttempts ==
    /\ fPc = "idle"
    /\ ~loading
    /\ error = MsgTimeout
    /\ pollCalls = maxAttempts
    /\ pollLog[2] # "completed"

\* C2: an error of a status query is swallowed: it leaves summary and error as
\* they are and the loop goes on (only the 30th failure ends it, with the
\* timeout error); a 'completed' answer right after a failed query ends the
\* run succeeded with that summary.
TransientPollErrorIsSwallowed ==
    [][ (fPc = "poll" /\ fPc' # "poll")
          => /\ ~FileReply.ok
                  => /\ summary' = summary
                     /\ IF pollCalls < maxAttempts
                          THEN fPc' = "delay" /\ loading' /\ error' = error
                          ELSE error' = MsgTimeout
             /\ (pollLog[2] = "error" /\ Completed(FileReply))
                  => /\ fPc' = "idle"
                     /\ ~loading'
                     /\ error' = ""
                     /\ summary' = FileReply.summary ]_vars

\* C2 witness: a run that succeeded on the query after a failed one
RecoveredAfterPollError ==
    /\ fPc = "idle"
    /\ ~loading
    /\ pollLog = << "error", "completed" >>
    /\ summary \in Summaries
    /\ error = ""

\* C3: when the k-th status query (k in 1..30) is the first to answer
\* 'completed', the run ends succeeded with the summary of that answer after
\* exactly k queries, and no query follows.
CompletedAtKthPollSucceeds ==
    /\ [][ (fPc = "poll" /\ fPc' # "poll" /\ Completed(FileReply))
             => /\ pollCalls \in 1..maxAttempts
                /\ pollCalls = attempts + 1
                /\ fPc' = "idle"
                /\ ~loading'
                /\ error' = ""
                /\ summary' = FileReply.summary
                /\ pollCalls' = pollCalls
                /\ requests'["summarizeFile"] = << >> ]_vars
    /\ [][ (fPc = "idle" /\ fPc' = "idle") => pollCalls' = pollCalls ]_vars

\* C3 witness: a run that succeeded at the last allowed query
SucceededAtLastAttempt ==
    /\ fPc = "idle"
    /\ ~loading
    /\ error = ""
    /\ summary \in Summaries
    /\ pollCalls = maxAttempts
    /\ pollLog = << "not ready", "completed" >>

\* C4: once the component is unmounted (the user navigated away) the loop sends
\* no further status query and writes no state.
CancelStopsPolling ==
    [][ ~mounted
          => /\ pollCalls' = pollCalls
             /\ summary' = summary
             /\ error' = error
             /\ processingStatus' = processingStatus
             /\ loading' = loading ]_vars

\* C18: within a run of the loop the attempt counter starts at 0, grows by
\* exactly 1 with every status query answered, never decreases and never
\* exceeds maxAttempts (30): it counts the queries answered so far.  After the
\* run has ended the only request summarizeFile sends is the upload of a fresh
\* submission.
AttemptsCountPolls ==
    /\ [](attempts \in 0..maxAttempts)
    /\ [](fPc = "poll" => attempts < maxAttempts)
    /\ [](fPc = "delay" => pollCalls = attempts)
    /\ [](fPc = "poll" => pollCalls = attempts + 1)
    /\ [][ (fPc = "upload" /\ fPc' = "delay") => attempts' = 0 ]_vars
    /\ [][ (fPc = "delay" /\ fPc' = "poll") => attempts' = attempts ]_vars
    /\ [][ (fPc = "poll" /\ fPc' = "delay") => attempts' = attempts + 1 ]_vars
    /\ [][ (fPc # "idle" /\ fPc' # "idle") => attempts' >= attempts ]_vars
    /\ [][ (fPc = "idle" /\ requests'["summarizeFile"] # requests["summarizeFile"])
             => /\ summarizeFile
                /\ requests'["summarizeFile"][1].op = "POST /documents"
                /\ attempts' = 0 ]_vars

\* C18 witness: the last status query the cap allows is in flight
LastAttemptInFlight ==
    /\ fPc = "poll"
    /\ attempts = maxAttempts - 1
    /\ pollCalls = maxAttempts
    /\ requests["summarizeFile"] # << >>
    /\ loading

OnlyCompletedEndsLoopEarly ==
    /\ [][ (fPc = "poll" /\ fPc' # "poll" /\ FileReply.ok /\ ~Completed(FileReply))
             => /\ summary' = summary
                /\ error' = (IF pollCalls < maxAttempts THEN error ELSE MsgTimeout)
                /\ fPc' = (IF pollCalls < maxAttempts THEN "delay" ELSE "idle")
                /\ loading' = (pollCalls < maxAttempts) ]_vars
    /\ [][ (fPc = "poll" /\ fPc' = "idle" /\ pollCalls < maxAttempts)
             => Completed(FileReply) ]_vars

\* C28 witness: the loop went on after a 'failed' answer and after an answer
\* without a status
ContinuedAfterFailedStatus ==
    /\ fPc = "delay"
    /\ loading
    /\ pollLog = << "failed", "no status" >>
    /\ pollCalls = attempts
    /\ error = ""

\* C29: when a file cycle ends, the error is empty exactly if the cycle got a
\* 'completed' answer: a failed upload and the attempt cap end it with an
\* error, a 'completed' answer without.
FileCycleErrorIffNotCompleted ==
    /\ [][ (fPc # "idle" /\ fPc' = "idle")
             => /\ ~loading'
                /\ (error' = "") <=> (fPc = "poll" /\ Completed(FileReply))
                /\ fPc = "upload" => error' = MsgUploadFailed
                /\ (fPc = "poll" /\ ~Completed(FileReply)) => error' = MsgTimeout ]_vars
    /\ [][ (fPc # "idle" /\ fPc' # "idle") => (loading' /\ error' = "") ]_vars

\* C29 witness: a cycle that got 'completed' after a 'failed' answer ended
\* without an error
CompletedAfterFailedStatus ==
    /\ fPc = "idle"
    /\ ~loading
    /\ error = ""
    /\ pollLog = << "failed", "completed" >>
    /\ summary \in Summaries

\* C9: a failed upload ends the run: the upload error is shown, loading is
\* cleared, and no status query is sent in that run.
UploadFailureIsTerminal ==
    /\ [][ (fPc = "upload" /\ fPc' # "upload" /\ ~FileReply.ok)
             => /\ fPc' = "idle"
                /\ ~loading'
                /\ error' = MsgUploadFailed
                /\ requests'["summarizeFile"] = << >>
                /\ pollCalls' = 0 ]_vars
    /\ [](error = MsgUploadFailed => (fPc = "idle" /\ ~loading /\ pollCalls = 0))

\* C9 witness: a run ended by a failed upload
UploadFailed ==
    /\ fPc = "idle"
    /\ ~loading
    /\ error = MsgUploadFailed
    /\ file # << >>
    /\ pollCalls = 0

\* C10: a run that ends without a 'completed' answer shows the timeout error,
\* which is none of the transport and validation messages, and documentId still
\* holds the id the upload returned.
TimeoutKeepsDocumentId ==
    [][ (fPc = "poll" /\ fPc' = "idle" /\ ~Completed(FileReply))
          => /\ error' = MsgTimeout
             /\ error' \notin { MsgUploadFailed, MsgSummarizeFailed, MsgFeedbackFailed,
                                MsgEmptyText, MsgNoFile, MsgNoRating }
             /\ ~loading'
             /\ documentId' \in DocIds
             /\ documentId' = docId
             /\ documentId' = requests["summarizeFile"][1].id ]_vars

\* C10 witness: the timeout is shown and the uploaded document's id is held
TimedOutWithDocumentId ==
    /\ fPc = "idle"
    /\ ~loading
    /\ error = MsgTimeout
    /\ documentId \in DocIds
    /\ summary = ""

---------------------------------------------------------------------------
\* Properties of summarizeText and of the options sent

\* Only whitespace, or nothing
Blank(t) == \A i \in 1..Len(t) : t[i] \in Whitespace

\* C6: a click on "Summarize Text" with an empty or whitespace-only text shows
\* the validation message and sends nothing; no request for a blank text is
\* ever in flight.
BlankTextIsRejected ==
    /\ [](requests["summarizeText"] # << >> => ~Blank(requests["summarizeText"][1].text))
    /\ [][ (summarizeText /\ Blank(text))
             => /\ error' = MsgEmptyText
                /\ ~loading'
                /\ tPc' = "idle"
                /\ requests' = requests ]_vars
    /\ [][ (tPc = "idle" /\ tPc' = "await") => ~Blank(text) ]_vars

\* C6 witness: a whitespace-only text was rejected
WhitespaceTextRejected ==
    /\ text # << >>
    /\ Blank(text)
    /\ error = MsgEmptyText
    /\ ~loading
    /\ requests["summarizeText"] = << >>

\* The answer summarizeText's await is about to receive
TextReply == replies["summarizeText"][1]

\* C11: a text submission sends exactly one request (the click sends one
\* POST /summarize, nothing is sent while the handler waits, nothing is in
\* flight when it ends); when the answer is a success the run ends with summary
\* and documentId taken from the response, loading cleared, no error, and
\* without any status query.
TextSuccessTakesResponse ==
    /\ [][ (tPc = "idle" /\ tPc' = "await")
             => requests' = [NoMessages EXCEPT
                   !["summarizeText"] = << serviceSummarizeText(text, RequestOptions) >>] ]_vars
    /\ [][ (tPc = "await" /\ tPc' = "await") => requests' = requests ]_vars
    /\ [][ (tPc = "await" /\ tPc' = "idle" /\ TextReply.ok)
             => /\ summary' = TextReply.summary
                /\ documentId' = TextReply.document_id
                /\ ~loading'
                /\ error' = ""
                /\ requests' = NoMessages
                /\ fPc' = "idle"
                /\ pollCalls' = 0 ]_vars

\* C11 witness: a text run ended with the summary and document id of its answer
TextSucceeded ==
    /\ tPc = "idle"
    /\ ~loading
    /\ ~Blank(text)
    /\ summary = "S2"
    /\ documentId = "d2"
    /\ error = ""
    /\ requests = NoMessages

\* C12: when the text request fails the run ends failed with an error that
\* carries the message of the underlying failure, and nothing is sent again.
TextFailureCarriesCause ==
    [][ (tPc = "await" /\ tPc' = "idle" /\ ~TextReply.ok)
          => /\ ~loading'
             /\ requests' = NoMessages
             /\ error' = TextReply.message ]_vars

\* C8: every request sent carries lengths within 20..500 with
\* min_length <= max_length.
SentLengthsAreOrdered ==
    \A h \in {"summarizeText", "summarizeFile"} :
        (requests[h] # << >> /\ requests[h][1].op \in {"POST /summarize", "POST /documents"})
          => /\ requests[h][1].min_length <= requests[h][1].max_length
             /\ requests[h][1].min_length \in 20..500
             /\ requests[h][1].max_length \in 20..500

\* C19: the request posted to /summarize or /documents carries, besides the
\* text or file, every option selected at submit time: maxLength, minLength,
\* model, temperature, format, includeKeywords and language.
RequestsCarryOptions ==
    \A h \in {"summarizeText", "summarizeFile"} :
        (requests[h] # << >> /\ requests[h][1].op \in {"POST /summarize", "POST /documents"})
          => /\ requests[h][1].max_length = summaryOptions.maxLength
             /\ requests[h][1].min_length = summaryOptions.minLength
             /\ {"model", "temperature", "format", "includeKeywords", "language"}
                   \subseteq DOMAIN requests[h][1]

---------------------------------------------------------------------------
\* Properties of submitFeedback

\* The feedback request in flight
FeedbackRequest == requests["submitFeedback"][1]

\* The answer submitFeedback's await is about to receive
FeedbackReply == replies["submitFeedback"][1]

FeedbackResetOnlyOnSuccess ==
    /\ [][ (bPc = "idle" /\ bPc' = "await")
             => requests' = [NoMessages EXCEPT
                   !["submitFeedback"] = << serviceSubmitFeedback(FeedbackRecord) >>] ]_vars
    /\ [][ (bPc = "await" /\ bPc' = "await")
             => /\ requests' = requests
                /\ rating' = rating
                /\ feedback' = feedback ]_vars
    /\ [][ (bPc = "await" /\ bPc' = "idle")
             => /\ requests' = NoMessages
                /\ ~loading'
                /\ summary' = summary
                /\ documentId' = documentId
                /\ IF FeedbackReply.ok
                     THEN rating' = 0 /\ feedback' = "" /\ error' = ""
                     ELSE /\ rating' = FeedbackRequest.rating
                          /\ feedback' = FeedbackRequest.feedback_text
                          /\ rating' # 0
                          /\ error' = MsgFeedbackFailed ]_vars

\* C14 witness: after one feedback succeeded (its timer is still pending) a
\* second one failed and the form still holds what was entered
FeedbackKeptAfterFailure ==
    /\ bPc = "idle"
    /\ ~loading
    /\ error = MsgFeedbackFailed
    /\ rating = 4
    /\ feedback = "too long"
    /\ statusTimers = 1

---------------------------------------------------------------------------
\* Properties of useFileUpload and fileService

\* The calls of uploadFile with a file over the limit
OversizeCalls == {i \in 1..Len(upCalls) : upCalls[i].file.size > 10 * 1024 * 1024}

\* C15: a call of uploadFile (the hook's or the file service's) with a file
\* larger than 10 MB ends at once with the size-limit error and without a
\* post, and the hook's loading is false after it; a file of exactly 10 MB is
\* posted.  The posts made are exactly those of the calls within the limit.
OversizeUploadRejected ==
    /\ [](apiPosts = Len(upCalls) - Cardinality(OversizeCalls))
    /\ [](\A i \in OversizeCalls :
             /\ upCalls[i].pc = "done"
             /\ upCalls[i].thrown = MsgFileTooLarge
             /\ upCalls[i].reply = << >>)
    /\ [][ (Len(upCalls') = Len(upCalls) + 1)
             => LET call == upCalls'[Len(upCalls')] IN
                  /\ call.file.size > 10 * 1024 * 1024
                       => /\ apiPosts' = apiPosts
                          /\ call.thrown = MsgFileTooLarge
                          /\ call.via = "useFileUpload"
                               => (~ufLoading' /\ ufError' = MsgFileTooLarge)
                  /\ call.file.size = 10 * 1024 * 1024
                       => /\ call.pc = "await"
                          /\ call.thrown = ""
                          /\ apiPosts' = apiPosts + 1
                          /\ call.via = "useFileUpload" => (ufLoading' /\ ufError' = "") ]_vars

\* C15 witness: a 10 MB file is being posted, and a 15 MB file given to the
\* hook after it was refused without a post
OversizeRefusedByHook ==
    /\ Len(upCalls) = 2
    /\ upCalls[1].file.size = 10 * 1024 * 1024
    /\ upCalls[1].pc = "await"
    /\ upCalls[2].via = "useFileUpload"
    /\ upCalls[2].file.size = 15 * 1024 * 1024
    /\ upCalls[2].thrown = MsgFileTooLarge
    /\ apiPosts = 1
    /\ ~ufLoading
    /\ ufError = MsgFileTooLarge

---------------------------------------------------------------------------
\* Properties of HistoryPanel

\* The fetchHistory call of the mounted instance
OwnFetch == hpFetches[hpInst]

\* C17: the mounted panel shows the loading state as long as its fetchHistory
\* call has not settled; when the call is rejected it shows the failure message
\* and no items; when it resolves it shows exactly the returned items; after
\* that it shows the same until it is unmounted (never the loading state
\* again), and error and items are never held together.
HistoryPanelShowsOutcome ==
    /\ [](hpMounted /\ OwnFetch.pc = "await" => HistoryPanelView.shows = "Loading history...")
    /\ [](hpMounted => ~(hpError # "" /\ hpHistory # << >>))
    /\ [][ (hpMounted /\ hpMounted' /\ OwnFetch.pc = "await" /\ OwnFetch'.pc = "done")
             => IF OwnFetch.result[1].ok
                  THEN HistoryPanelView' = [shows |-> "history-panel", message |-> "",
                                            items |-> OwnFetch.result[1].data]
                  ELSE HistoryPanelView' = [shows |-> "error-message",
                                            message |-> MsgHistoryFailed, items |-> << >>] ]_vars
    /\ [][ (hpMounted /\ hpMounted' /\ OwnFetch.pc = "done")
             => HistoryPanelView' = HistoryPanelView ]_vars

\* C17 witness: on the second visit the panel shows the failure message, after
\* the first visit's fetch had resolved with two items
HistoryFailedOnSecondVisit ==
    /\ hpMounted
    /\ hpInst = 2
    /\ HistoryPanelView.shows = "error-message"
    /\ HistoryPanelView.message = MsgHistoryFailed
    /\ hpFetches[1].result # << >>
    /\ hpFetches[1].result[1].ok
    /\ Len(hpFetches[1].result[1].data) = 2

---------------------------------------------------------------------------
\* Properties of the submission cycles and of file validation

\* The handlers of the component that are running
ActiveHandlers ==
    {h \in Handlers : (h = "summarizeText" /\ tPc # "idle")
                        \/ (h = "summarizeFile" /\ fPc # "idle")
                        \/ (h = "submitFeedback" /\ bPc # "idle")}

\* The calls of the hook that are running
ActiveHookCalls == {i \in 1..Len(hCalls) : hCalls[i].pc = "await"}

\* C5: at most one submission cycle is in flight per workflow instance, the
\* component and the hook alike.
OneSubmissionInFlight ==
    /\ Cardinality(ActiveHandlers) <= 1
    /\ Cardinality(ActiveHookCalls) <= 1

\* The state of the workflow as the presentation sees it
Phase ==
    IF tPc # "idle" \/ fPc = "upload" THEN "Submitting"
    ELSE IF fPc \in {"delay", "poll"} THEN "Polling"
    ELSE IF error # "" THEN "Failed"
    ELSE IF summary # "" THEN "Succeeded"
    ELSE "Idle"

HookIdle == hSummary = << >> /\ hError = "" /\ ~hLoading

\* C20: after reset the hook is idle (summary null, error null, loading false)
\* and stays so until a new call of summarizeText or summarizeFile is started,
\* also when a call started before the reset settles afterwards.
ResetDiscardsPendingResult ==
    [][ (HookIdle /\ Len(hCalls') = Len(hCalls)) => HookIdle' ]_vars

\* The messages written in the client code
ClientMessages ==
    { MsgEmptyText, MsgSummarizeFailed, MsgNoFile, MsgTimeout, MsgUploadFailed,
      MsgNoRating, MsgFeedbackFailed,
      "Failed to generate summary", "Failed to process document" }

\* C21: the error shown is always empty or one of the fixed messages of the
\* client, in the component and in the hook, and never text that came with a
\* transport error.
ErrorIsClientMessage ==
    /\ error \in ClientMessages \cup {""}
    /\ hError \in ClientMessages \cup {""}

\* What goes into a submission
SubmissionInputs == << text, file, summaryOptions, selectedModel, advancedOptions >>

\* C23: while a submission cycle is in flight (loading) no step changes the
\* text, the selected file, the length options, the model or the advanced
\* options; when the awaited submit or upload request returns, these are still
\* the values the request was built from.
SubmittedRequestImmutable ==
    /\ [][ loading => SubmissionInputs' = SubmissionInputs ]_vars
    /\ [][ (tPc = "await" /\ tPc' = "idle")
             => requests["summarizeText"] = << serviceSummarizeText(text', RequestOptions') >> ]_vars
    /\ [][ (fPc = "upload" /\ fPc' # "upload")
             => requests["summarizeFile"] = << uploadDocument(file'[1], RequestOptions') >> ]_vars

\* C23 witness: a text request built from changed options, model and advanced
\* options has been answered and not yet consumed
AnsweredWithChangedInputs ==
    /\ loading
    /\ tPc = "await"
    /\ replies["summarizeText"] # << >>
    /\ requests["summarizeText"][1].max_length = 500
    /\ selectedModel = "gpt-4"
    /\ advancedOptions.format = "bullets"
    /\ file # << >>

\* C24: a step that selects a file (the only step that changes file) clears
\* documentId and summary when a documentId was set, leaves both alone when
\* none was set, and changes nothing else: rating, comment, error, loading,
\* text, status and options are as before.
FileSelectionFrame ==
    [][ file' # file
          => /\ documentId # "" => (documentId' = "" /\ summary' = "")
             /\ documentId = "" => (documentId' = documentId /\ summary' = summary)
             /\ << rating, feedback, error, loading >>' = << rating, feedback, error, loading >>
             /\ << text, processingStatus, selectedModel, summaryOptions, advancedOptions >>'
                  = << text, processingStatus, selectedModel, summaryOptions, advancedOptions >>
      ]_vars

\* C24 witness: a file was selected over a rated, commented summary with an
\* error showing; the document and its summary are gone, the rest is kept
DocumentClearedBySelection ==
    /\ file # << >>
    /\ documentId = ""
    /\ summary = ""
    /\ rating > 0
    /\ feedback # ""
    /\ error # ""
    /\ ~loading

\* C25: whenever no submission is in flight and a summary is displayed, it is
\* the summary that was generated for the current documentId, so a feedback
\* request pairs a document with its own summary.
SummaryBelongsToDocument ==
    (~loading /\ summary # "") => summaryDocId = documentId

\* The calls of the hook whose await returns in this step
SettlingHookCalls ==
    {i \in 1..Len(hCalls) : hCalls[i].pc = "await" /\ hCalls'[i].pc = "done"}

\* C26: when a call of the hook completes, loading stays true as long as
\* another summarizeText or summarizeFile request is in flight, and the stored
\* summary is replaced only by the result of the most recently started call.
OverlappingCallsKeepLoading ==
    [][ SettlingHookCalls # {}
          => /\ ActiveHookCalls' # {} => hLoading'
             /\ hSummary' # hSummary => Len(hCalls) \in SettlingHookCalls
      ]_vars

\* C27: while loading is true the status text is not empty and names the
\* operation in flight; the timer of an earlier feedback does not blank it.
StatusShownWhileLoading ==
    /\ loading => processingStatus # StatusNone
    /\ tPc = "await" => processingStatus = StatusGenerating
    /\ bPc = "await" => processingStatus = StatusSubmitting

\* C30: with every request answered and every delay ended, a submission cycle
\* that has started (loading true) ends with loading false, whatever the
\* transport answers.
EveryCycleEnds == loading ~> ~loading

\* C30 witness: a summary was produced and rated, the feedback went through,
\* and a file cycle that followed has ended in the timeout
AllCyclesEnded ==
    /\ ~loading
    /\ summary # ""
    /\ statusTimers > 0
    /\ error = MsgTimeout
    /\ pollCalls = maxAttempts
    /\ bPc = "idle" /\ tPc = "idle" /\ fPc = "idle"

\* The constraints a file violates
Violations(f) ==
    (IF f.size > 10 * 1024 * 1024 THEN {"size"} ELSE {})
      \cup (IF Extension(f) \notin {".txt", ".pdf", ".docx", ".doc"} THEN {"type"} ELSE {})

\* The constraints an error of validateFile or of FileUpload names
Named(messages) ==
    {k \in {"size", "type"} :
        \E i \in 1..Len(messages) :
            \/ k = "size" /\ messages[i] \in {MsgSizeExceeds, ReasonSize}
            \/ k = "type" /\ messages[i] \in {MsgTypeNotAllowed, ReasonType}}

\* C7: a file over the size limit or with a disallowed extension is rejected
\* with an error naming every constraint it violates, by validateFile and by
\* the file picker, and is neither selected nor sent.
InvalidFileErrorListsAll ==
    /\ [][ \A f \in CandidateFiles :
             (validation' = validateFile(<< f >>) /\ Violations(f) # {})
               => (~validation'.isValid /\ Named(validation'.errors) = Violations(f)) ]_vars
    /\ [][ \A f \in CandidateFiles :
             ((handleChange \/ handleDrop) /\ fuError' = validateFiles(f).invalidFiles
                /\ Violations(f) # {})
               => /\ Named([i \in 1..Len(fuError') |-> fuError'[i].reason]) = Violations(f)
                  /\ file' = file
                  /\ requests' = requests ]_vars

===========================================================================
